---------------------------- MODULE Spec2Model ----------------------------
(***************************************************************************)
(* Model of the chat transcript converter:                                 *)
(*   chatbot_convert.py        detect_format / convert_format and the     *)
(*                             Playground and Workbench handlers          *)
(*   chat_format_base.py       the base handler used by the HTML handler  *)
(*   chatgpt_format_handler.py _HTML2MD and ChatGPTFormatHandler          *)
(*                                                                         *)
(* A Python str is a sequence of one-character strings.  Literal pieces    *)
(* the code only ever concatenates (the Markdown header, "::: ", a role)   *)
(* are kept as single multi-character elements of such a sequence.         *)
(* A DOM node is a record [tag, attrs, text, kids]; a text leaf            *)
(* (NavigableString) has tag "#text".                                      *)
(***************************************************************************)
EXTENDS Integers, Sequences, FiniteSets, TLC

\* ------------------------------------------------------------------------
\*  Python str methods used by the code
\* ------------------------------------------------------------------------

\* str.strip() with no argument strips these.
Whitespace == {" ", "\n", "\r", "\t"}

RECURSIVE LStripSet(_, _)
LStripSet(s, cs) ==
    IF s = <<>> THEN <<>>
    ELSE IF Head(s) \in cs THEN LStripSet(Tail(s), cs) ELSE s

RECURSIVE RStripSet(_, _)
RStripSet(s, cs) ==
    IF s = <<>> THEN <<>>
    ELSE IF s[Len(s)] \in cs THEN RStripSet(SubSeq(s, 1, Len(s) - 1), cs) ELSE s

\* txt.strip()
Strip(s) == RStripSet(LStripSet(s, Whitespace), Whitespace)

\* txt.strip(chars)
StripSet(s, cs) == RStripSet(LStripSet(s, cs), cs)

\* txt.replace(old, new) for a one-character old
RECURSIVE ReplaceChar(_, _, _)
ReplaceChar(s, old, new) ==
    IF s = <<>> THEN <<>>
    ELSE (IF Head(s) = old THEN new ELSE <<Head(s)>>)
         \o ReplaceChar(Tail(s), old, new)

\* txt.replace("\r\n", "\n")
RECURSIVE ReplaceCRLF(_)
ReplaceCRLF(s) ==
    IF s = <<>> THEN <<>>
    ELSE IF Len(s) >= 2 /\ s[1] = "\r" /\ s[2] = "\n"
         THEN <<"\n">> \o ReplaceCRLF(SubSeq(s, 3, Len(s)))
         ELSE <<Head(s)>> \o ReplaceCRLF(Tail(s))

\* Length of the run of "\n" at the front of s.
RECURSIVE NewlineRun(_)
NewlineRun(s) ==
    IF s = <<>> \/ Head(s) # "\n" THEN 0 ELSE 1 + NewlineRun(Tail(s))

\* re.sub(r"\n{3,}", "\n\n", md)
RECURSIVE CollapseNewlines(_)
CollapseNewlines(s) ==
    IF s = <<>> THEN <<>>
    ELSE LET n == NewlineRun(s) IN
         IF n >= 3 THEN <<"\n", "\n">> \o CollapseNewlines(SubSeq(s, n + 1, Len(s)))
         ELSE <<Head(s)>> \o CollapseNewlines(Tail(s))

\* txt.splitlines(): breaks at "\n", "\r" and "\r\n"; the breaks are
\* dropped and a final break opens no empty last line.
RECURSIVE SplitLinesFrom(_, _)
SplitLinesFrom(s, cur) ==
    IF s = <<>> THEN (IF cur = <<>> THEN <<>> ELSE <<cur>>)
    ELSE IF Len(s) >= 2 /\ s[1] = "\r" /\ s[2] = "\n"
         THEN <<cur>> \o SplitLinesFrom(SubSeq(s, 3, Len(s)), <<>>)
    ELSE IF Head(s) \in {"\n", "\r"}
         THEN <<cur>> \o SplitLinesFrom(Tail(s), <<>>)
    ELSE SplitLinesFrom(Tail(s), Append(cur, Head(s)))

SplitLines(s) == SplitLinesFrom(s, <<>>)

\* sep.join(parts)
RECURSIVE Join(_, _)
Join(sep, parts) ==
    IF parts = <<>> THEN <<>>
    ELSE IF Len(parts) = 1 THEN parts[1]
    ELSE parts[1] \o sep \o Join(sep, Tail(parts))

\* "".join(parts)
Concat(parts) == Join(<<>>, parts)

\* Whether sub occurs in s as a contiguous run (Python's `sub in s`).
Contains(s, sub) ==
    \E i \in 1..(Len(s) - Len(sub) + 1) : SubSeq(s, i, i + Len(sub) - 1) = sub

\* value.lower() on the attribute values of the model
Lower(v) ==
    CASE v = "Assistant" -> "assistant"
      [] v = "ASSISTANT" -> "assistant"
      [] v = "User" -> "user"
      [] v = "Tool" -> "tool"
      [] OTHER -> v

\* ------------------------------------------------------------------------
\*  The parse tree (bs4 Tag / NavigableString)
\* ------------------------------------------------------------------------

NoAttrs == <<>>

TextNode(s) == [tag |-> "#text", attrs |-> NoAttrs, text |-> s, kids |-> <<>>]
Elem(t, ks) == [tag |-> t, attrs |-> NoAttrs, text |-> <<>>, kids |-> ks]
ElemA(t, as, ks) == [tag |-> t, attrs |-> as, text |-> <<>>, kids |-> ks]

IsText(n) == n.tag = "#text"

\* Tag.descendants: every node below n, in document order.
RECURSIVE Descendants(_)
RECURSIVE DescendantsOfAll(_)
Descendants(n) == DescendantsOfAll(n.kids)
DescendantsOfAll(ks) ==
    IF ks = <<>> THEN <<>>
    ELSE <<Head(ks)>> \o Descendants(Head(ks)) \o DescendantsOfAll(Tail(ks))

\* tag.find(names): the first descendant element whose name is in ts, or
\* None (here the empty sequence; a found node is returned as <<node>>).
FirstWhere(seq, Test(_)) ==
    LET hits == SelectSeq(seq, Test) IN
    IF hits = <<>> THEN <<>> ELSE <<hits[1]>>

Find(n, ts) ==
    LET Test(d) == d.tag \in ts IN FirstWhere(Descendants(n), Test)

\* tag.find(class_=c)
FindClass(n, c) ==
    LET Test(d) == /\ "class" \in DOMAIN d.attrs
                   /\ \E i \in DOMAIN d.attrs["class"] : d.attrs["class"][i] = c
    IN FirstWhere(Descendants(n), Test)

\* soup.find_all(attrs={name: True}) over a forest
FindAllAttr(forest, name) ==
    LET Test(d) == name \in DOMAIN d.attrs IN
    SelectSeq(DescendantsOfAll(forest), Test)

\* tag.get_text("", strip=False): all text below n, concatenated.
GetText(n) ==
    LET texts == SelectSeq(Descendants(n), IsText) IN
    Concat([i \in DOMAIN texts |-> texts[i].text])

\* tag.get_text(" ", strip=True): every text below n stripped, the empty
\* ones dropped, joined with one space.
GetTextStripped(n) ==
    LET texts == SelectSeq(Descendants(n), IsText)
        stripped == [i \in DOMAIN texts |-> Strip(texts[i].text)]
        NonEmpty(t) == t # <<>>
    IN Join(<<" ">>, SelectSeq(stripped, NonEmpty))

\* tag.string: the text of a tag whose only child is a text, or whose only
\* child is a tag that has a .string; otherwise None (here <<>>; a found
\* string is returned as <<string>>).
RECURSIVE DotString(_)
DotString(n) ==
    IF Len(n.kids) # 1 THEN <<>>
    ELSE IF IsText(n.kids[1]) THEN <<n.kids[1].text>>
    ELSE DotString(n.kids[1])

\* tag.find_all(names): every descendant element whose name is in ts.
FindAll(n, ts) ==
    LET Test(d) == d.tag \in ts IN SelectSeq(Descendants(n), Test)

\* ------------------------------------------------------------------------
\*  _HTML2MD: the pure parts
\* ------------------------------------------------------------------------

\* str(n) for a natural number
RECURSIVE DecimalStr(_)
DecimalStr(n) ==
    LET digit == <<"0", "1", "2", "3", "4", "5", "6", "7", "8", "9">>[(n % 10) + 1] IN
    IF n < 10 THEN <<digit>> ELSE DecimalStr(n \div 10) \o <<digit>>

\* _escape without its last replace: "_" is left as it is.
EscapeStarsOnly(txt) ==
    ReplaceChar(ReplaceChar(txt, "\\", <<"\\", "\\">>), "*", <<"\\", "*">>)

\* _HTML2MD._escape
_escape(txt) ==
    ReplaceChar(ReplaceChar(ReplaceChar(txt, "\\", <<"\\", "\\">>),
                            "*", <<"\\", "*">>),
                "_", <<"\\", "_">>)

\* _HTML2MD._current_list_marker: the bullet, and _list_stack as it leaves it.
_current_list_marker(stack) ==
    IF stack = <<>> THEN [bullet |-> <<"*">>, stack |-> stack]
    ELSE LET kind == stack[Len(stack)][1]
             idx  == stack[Len(stack)][2]
         IN IF kind = "ul" THEN [bullet |-> <<"*">>, stack |-> stack]
            ELSE [bullet |-> DecimalStr(idx + 1) \o <<".">>,
                  stack  |-> [stack EXCEPT ![Len(stack)] = <<kind, idx + 1>>]]

\* The language label of _pre_to_md: the first inner div's .string,
\* stripped, if it is 1..20 characters without a space.
PreLang(pre) ==
    LET first_div == Find(pre, {"div"}) IN
    IF first_div = <<>> THEN <<>>
    ELSE LET str == DotString(first_div[1]) IN
         IF str = <<>> \/ str[1] = <<>> THEN <<>>
         ELSE LET txt == Strip(str[1]) IN
              IF 0 < Len(txt) /\ Len(txt) <= 20 /\ ~Contains(txt, <<" ">>)
              THEN txt ELSE <<>>

\* The code text of _pre_to_md: the text of the first inner code element,
\* or of the pre itself, line ends normalised, "\n" stripped at both ends.
PreCode(pre) ==
    LET code == Find(pre, {"code"})
        code_tag == IF code = <<>> THEN pre ELSE code[1]
    IN StripSet(ReplaceCRLF(GetText(code_tag)), {"\n"})

\* The backquote character (the module's lexer takes none in a string).
Backquote == "<backquote>"

Fence == <<Backquote, Backquote, Backquote>>

\* _HTML2MD._pre_to_md
_pre_to_md(pre) ==
    <<"\n">> \o Fence \o PreLang(pre) \o <<"\n">> \o PreCode(pre)
             \o <<"\n">> \o Fence \o <<"\n", "\n">>

\* The cells _table_to_md renders, row by row: for each tr below the table
\* its th and td descendants.
TableRows(table) ==
    LET trs == FindAll(table, {"tr"}) IN
    [r \in DOMAIN trs |-> FindAll(trs[r], {"th", "td"})]

TableCells(table) == Concat(TableRows(table))

\* texts cut into rows of the given lengths.
RECURSIVE Regroup(_, _)
Regroup(lens, texts) ==
    IF lens = <<>> THEN <<>>
    ELSE <<SubSeq(texts, 1, Head(lens))>>
         \o Regroup(Tail(lens), SubSeq(texts, Head(lens) + 1, Len(texts)))

\* "| " + " | ".join(row) + " |"
TableLine(row) == <<"|", " ">> \o Join(<<" ", "|", " ">>, row) \o <<" ", "|">>

\* _HTML2MD._table_to_md, given the stripped _children_md of each cell.
_table_to_md(table, texts) ==
    LET lens == [r \in DOMAIN TableRows(table) |-> Len(TableRows(table)[r])]
        rows == Regroup(lens, texts)
    IN IF rows = <<>> THEN <<>>
       ELSE LET header == TableLine(rows[1])
                sep == TableLine([c \in DOMAIN rows[1] |-> <<"-", "-", "-">>])
                rest == Tail(rows)
                body == Join(<<"\n">>, [r \in DOMAIN rest |-> TableLine(rest[r])])
            IN Join(<<"\n">>, <<header, sep, body>>)

HeadingLevel(name) ==
    CASE name = "h1" -> 1 [] name = "h2" -> 2 [] name = "h3" -> 3
      [] name = "h4" -> 4 [] name = "h5" -> 5 [] name = "h6" -> 6

Headings == {"h1", "h2", "h3", "h4", "h5", "h6"}

\* The tags _node_to_md renders without descending into their children.
LeafTags == {"br", "hr", "pre"}

\* Whether _node_to_md renders children (or cells) of the node.
Descends(node) == ~IsText(node) /\ node.tag \notin LeafTags

\* _node_to_md for a text and for the tags of LeafTags.
_node_to_md_leaf(node) ==
    CASE IsText(node) -> _escape(node.text)
      [] node.tag = "br" -> <<" ", " ", "\n">>
      [] node.tag = "hr" -> <<"\n", "-", "-", "-", "\n", "\n">>
      [] node.tag = "pre" -> _pre_to_md(node)

\* _node_to_md for a tag whose children are rendered: what it returns,
\* given _children_md(node) as inner (for li, the bullet it took before
\* rendering them; for table, the stripped _children_md of its cells).
_node_to_md_close(node, inner, bullet, cells) ==
    LET name == node.tag IN
    CASE name = "p" -> inner \o <<"\n", "\n">>
      [] name \in Headings ->
            [i \in 1..HeadingLevel(name) |-> "#"] \o <<" ">> \o Strip(inner)
                \o <<"\n", "\n">>
      [] name = "blockquote" ->
            LET lines == SplitLines(Strip(inner)) IN
            Join(<<"\n">>, [i \in DOMAIN lines |-> <<">", " ">> \o lines[i]])
                \o <<"\n", "\n">>
      [] name \in {"ul", "ol"} -> inner
      [] name = "li" ->
            bullet \o <<" ">>
                \o ReplaceChar(Strip(inner), "\n", <<"\n", " ", " ", " ">>)
                \o <<"\n">>
      [] name = "table" -> _table_to_md(node, cells) \o <<"\n", "\n">>
      [] name = "strong" -> <<"*", "*">> \o Strip(inner) \o <<"*", "*">>
      [] name = "em" -> <<"*">> \o Strip(inner) \o <<"*">>
      [] name = "del" -> <<"~", "~">> \o Strip(inner) \o <<"~", "~">>
      [] name = "a" ->
            <<"[">> \o Strip(inner) \o <<"]", "(">>
                \o (IF "href" \in DOMAIN node.attrs THEN node.attrs["href"] ELSE <<"#">>)
                \o <<")">>
      [] name = "sup" -> <<"^">> \o Strip(inner)
      [] name = "code" -> <<Backquote>> \o Strip(inner) \o <<Backquote>>
      [] OTHER -> inner

\* The tail of _HTML2MD.convert: runs of newlines collapsed, then stripped.
ConvertFinish(md) == Strip(CollapseNewlines(md))

\* ------------------------------------------------------------------------
\*  Python values handed to convert_format
\* ------------------------------------------------------------------------
\* A value is [type |-> "dict", d |-> [key |-> value]], [type |-> "str",
\* s |-> pieces, soup |-> the forest BeautifulSoup parses it to],
\* [type |-> "list", l |-> elements], [type |-> "int"] or
\* [type |-> "NoneType"].

IsDict(v) == v.type = "dict"
Dict(d) == [type |-> "dict", d |-> d]

\* `key in v`: a key of a dict, a substring of a str, an element of a list;
\* a TypeError for a value that is no container.
PyIn(key, v) ==
    CASE v.type = "dict" -> IF key \in DOMAIN v.d THEN "True" ELSE "False"
      [] v.type = "str"  -> IF Contains(v.s, <<key>>) THEN "True" ELSE "False"
      [] v.type = "list" -> IF \E i \in DOMAIN v.l : v.l[i] = key THEN "True" ELSE "False"
      [] OTHER -> "TypeError"

\* dict.get(key, default)
DictGet(d, key, default) == IF key \in DOMAIN d THEN d[key] ELSE default

Raise(exc, msg) == [status |-> "raise", exc |-> exc, value |-> msg]
Return(v) == [status |-> "return", exc |-> "", value |-> v]
NoResult == [status |-> "running", exc |-> "", value |-> <<>>]

\* ------------------------------------------------------------------------
\*  chatbot_convert.py
\* ------------------------------------------------------------------------

\* PlaygroundFormatHandler.can_handle
PlaygroundCanHandle(v) == PyIn("input", v)

\* WorkbenchFormatHandler.can_handle
WorkbenchCanHandle(v) == PyIn("messages", v)

\* ChatGPTFormatHandler.can_handle
ChatGPTCanHandle(v) ==
    /\ v.type = "str"
    /\ Contains(v.s, <<"<article">>)
    /\ Contains(v.s, <<"data-message-author-role">>)

\* The handlers list of detect_format, in its order.
Handlers == <<"PlaygroundFormatHandler", "WorkbenchFormatHandler">>

CanHandle(h, v) ==
    CASE h = "PlaygroundFormatHandler" -> PlaygroundCanHandle(v)
      [] h = "WorkbenchFormatHandler" -> WorkbenchCanHandle(v)

\* detect_format: the loop over the handlers from position i on.
RECURSIVE DetectFrom(_, _)
DetectFrom(i, v) ==
    IF i > Len(Handlers) THEN Raise("ValueError", "Unsupported chat format")
    ELSE LET c == CanHandle(Handlers[i], v) IN
         CASE c = "TypeError" -> Raise("TypeError", "argument is not iterable")
           [] c = "True" -> Return(Handlers[i])
           [] OTHER -> DetectFrom(i + 1, v)

detect_format(v) == DetectFrom(1, v)

\* next((item.get("text") for item in content if item.get("type") == t), "")
RECURSIVE FirstText(_, _)
FirstText(content, t) ==
    IF content = <<>> THEN <<>>
    ELSE IF Head(content).type = t THEN Head(content).text
    ELSE FirstText(Tail(content), t)

\* One turn of the loop of PlaygroundFormatHandler._convert_to_messages:
\* the messages list after `message` is handled.
PlaygroundConvertOne(msgs, message) ==
    LET role == message.role
        content == message.content
    IN CASE role = "user" ->
               LET text == FirstText(content, "input_text") IN
               IF text # <<>> THEN Append(msgs, [role |-> "user", content |-> text])
               ELSE msgs
         [] role = "assistant" ->
               LET text == FirstText(content, "output_text") IN
               IF text # <<>> THEN Append(msgs, [role |-> "assistant", content |-> text])
               ELSE msgs
         [] OTHER -> msgs

\* to_workbench rebuilding the object from the messages that have content.
WorkbenchDropEmpty(v) ==
    IF IsDict(v) /\ "messages" \in DOMAIN v.d
    THEN LET HasContent(m) == m.content # <<>> IN
         Dict([messages |-> SelectSeq(v.d["messages"], HasContent)])
    ELSE v

\* WorkbenchFormatHandler.to_workbench
WorkbenchToWorkbench(v) == v

\* ChatFormatHandler._create_markdown_structure (the same in both files)
_create_markdown_structure(model, timestamp) ==
    <<"# Chat Transcript\n\n## Session Information\n\n",
      "**Model:** ", model, "\n",
      "**Timestamp:** ", timestamp, "\n", "\n",
      "## Conversation\n\n">>

\* ChatFormatHandler._format_timestamp
_format_timestamp(ts) == IF ts = "None" THEN "Unknown" ELSE ts

\* chatbot_convert.ChatFormatHandler._format_message
ConvertFormatMessage(role, content) ==
    IF content = <<>> THEN <<>>
    ELSE <<"**", role, "**: ">> \o content \o <<"\n", "\n", "-", "-", "-", "\n", "\n">>

\* chatbot_convert.ChatFormatHandler._format_messages, after its loop
ConvertFormatMessagesEnd(md) == RStripSet(md, {"-", "\n"}) \o <<"\n">>

\* chat_format_base.ChatFormatHandler._format_message
BaseFormatMessage(role, content) ==
    IF content = <<>> THEN <<>>
    ELSE <<"::: ", role, "\n">> \o Strip(content) \o <<"\n", ":::", "\n", "\n">>

\* chat_format_base.ChatFormatHandler._format_messages, after its loop
BaseFormatMessagesEnd(md) == md \o <<"\n">>

\* The class whose _format_message a handler inherits: the handlers of
\* chatbot_convert.py extend the ChatFormatHandler defined in that file,
\* ChatGPTFormatHandler the one of chat_format_base.py.
_format_message(h, role, content) ==
    IF h = "ChatGPTFormatHandler" THEN BaseFormatMessage(role, content)
    ELSE ConvertFormatMessage(role, content)

_format_messages_end(h, md) ==
    IF h = "ChatGPTFormatHandler" THEN BaseFormatMessagesEnd(md)
    ELSE ConvertFormatMessagesEnd(md)

\* The model name each to_markdown passes to _create_markdown_structure.
ModelName(h, v) ==
    CASE h = "PlaygroundFormatHandler" -> DictGet(v.d, "model", "unknown")
      [] h = "WorkbenchFormatHandler" -> "unknown"
      [] h = "ChatGPTFormatHandler" -> "ChatGPT-web"

\* ------------------------------------------------------------------------
\*  chatgpt_format_handler.py: ChatGPTFormatHandler._extract_messages
\* ------------------------------------------------------------------------

RoleAttr == "data-message-author-role"

\* The role taken from the attribute as it is, in lower case.
RolePassedThrough(value) == Lower(value)

\* role = "assistant" if role_raw == "assistant" else "user"
NormalizeRole(value) == IF Lower(value) = "assistant" THEN "assistant" ELSE "user"

\* The tags whose presence below a message element sends it through
\* _HTML2MD rather than get_text.
BlockTags == {"pre", "code", "table", "blockquote", "ul", "ol"}

\* Whether the element's content comes from h2md.convert.
TakesConvert(n) == FindClass(n, "markdown") # <<>> \/ Find(n, BlockTags) # <<>>

\* The node handed to h2md.convert for a message element.
ConvertRoot(n) ==
    LET md_container == FindClass(n, "markdown") IN
    IF md_container # <<>> THEN md_container[1] ELSE n

\* The append without its `if content:` guard.
AppendAlways(msgs, role, content) == Append(msgs, [role |-> role, content |-> content])

\* if content: messages.append({"role": role, "content": content})
AppendIfContent(msgs, role, content) ==
    IF content # <<>> THEN Append(msgs, [role |-> role, content |-> content])
    ELSE msgs

\* self._list_stack.append((name, 0))
ListPush(stack, name) == Append(stack, <<name, 0>>)

\* _node_to_md leaving a list without the pop.
ListPopSkipped(stack) == stack

\* self._list_stack.pop()
ListPop(stack) == SubSeq(stack, 1, Len(stack) - 1)

\* An open call: the node, the nodes it renders one after the other (its
\* children; for a table its cells), the next of them, the text joined so
\* far, the bullet of an li, the cell texts of a table.
Frame(node, kids) ==
    [node |-> node, kids |-> kids, i |-> 1, acc |-> <<>>, bullet |-> <<>>,
     cells |-> <<>>]

\* ------------------------------------------------------------------------
\*  Inputs
\* ------------------------------------------------------------------------

\* Longest "messages" / "input" list of a JSON input.
MaxMessages == 2
\* Most nodes in a body built from list tags.
MaxNodes == 4
\* Most message elements in a page with several.
MaxElements == 2

SeqsUpTo(S, n) == UNION {[1..k -> S] : k \in 0..n}

Str(v) == [type |-> "str", s |-> v, soup |-> <<>>]

JsonRoles == {"user", "assistant", "system"}
JsonTexts == {<<>>, <<"H", "i">>, <<"a", "-">>}

WorkbenchMessages == SeqsUpTo([role : JsonRoles, content : JsonTexts], MaxMessages)

ContentItem(t, x) == [type |-> t, text |-> x]
ContentLists ==
    { <<>>,
      <<ContentItem("input_text", <<"H", "i">>)>>,
      <<ContentItem("output_text", <<"Y", "o">>)>>,
      <<ContentItem("output_text", <<>>), ContentItem("input_text", <<"H", "i">>),
        ContentItem("output_text", <<"O", "k">>)>> }
PlaygroundInputs == SeqsUpTo([role : JsonRoles, content : ContentLists], MaxMessages)

DictInputs ==
    {Dict([messages |-> m]) : m \in WorkbenchMessages}
    \cup {Dict([input |-> i]) : i \in PlaygroundInputs}
    \cup {Dict([input |-> i, model |-> "gpt-4o"]) : i \in SeqsUpTo([role : JsonRoles, content : ContentLists], 1)}
    \cup {Dict([input |-> <<>>, messages |-> m]) : m \in SeqsUpTo([role : JsonRoles, content : JsonTexts], 1)}
    \cup {Dict(<<>>), Dict([model |-> "gpt-4o"])}

StrInputs ==
    {Str(v) : v \in { <<"h", "i">>,
                      <<"<article", " ", "data-message-author-role", ">">>,
                      <<"<article", " ", "data-message-author-role", ">", "input", "</article>">>,
                      <<"<article", " ", "data-message-author-role", ">", "messages", "</article>">>,
                      <<"<article", ">", "input">>,
                      <<"my", " ", "messages">> }}

ListInputs == {[type |-> "list", l |-> v] : v \in {<<>>, <<"input">>, <<"messages">>, <<"x">>}}

RawInputs == DictInputs \cup StrInputs \cup ListInputs
                 \cup {[type |-> "int"], [type |-> "NoneType"]}

OutputFormats == {"markdown", "workbench", "html"}
Timestamps == {"None", "2025-01-02 03:04:05"}

\* --- pages ---

ListTags == {"ol", "ul", "li"}

RECURSIVE TreesOfSize(_)
RECURSIVE ForestsOfSize(_)
TreesOfSize(n) ==
    {Elem(t, f) : t \in ListTags, f \in ForestsOfSize(n - 1)}
    \cup (IF n = 1 THEN {TextNode(<<"x">>)} ELSE {})
ForestsOfSize(n) ==
    IF n = 0 THEN {<<>>}
    ELSE UNION {{<<t>> \o f : t \in TreesOfSize(k), f \in ForestsOfSize(n - k)} : k \in 1..n}

ListBodies == UNION {ForestsOfSize(n) : n \in 1..MaxNodes}

Payloads ==
    { <<"a">>,
      <<"a", "\n", "\n", "\n", "b">>,
      <<"a", "\n", " ", " ", "b">>,
      <<"\n", "a", "\r", "\n", "b", "\n">>,
      <<"x", "_", "*", "\\">> }

PreShapes(p) ==
    { Elem("pre", <<Elem("code", <<TextNode(p)>>)>>),
      Elem("pre", <<Elem("div", <<TextNode(<<"p", "y">>)>>), Elem("code", <<TextNode(p)>>)>>),
      Elem("pre", <<Elem("div", <<TextNode(<<"n", "o", " ", "_">>)>>), TextNode(p)>>) }

PreContexts(pre) ==
    { <<pre>>,
      <<Elem("p", <<TextNode(<<"t", "_">>)>>), pre>>,
      <<Elem("ol", <<Elem("li", <<TextNode(<<"i">>), pre>>)>>)>>,
      <<Elem("ul", <<Elem("li", <<pre>>)>>)>>,
      <<Elem("blockquote", <<pre>>)>> }

PreBodies == UNION {PreContexts(pre) : pre \in UNION {PreShapes(p) : p \in Payloads}}

StarTexts == {<<"a", "*">>, <<"_", "b">>, <<"\\">>, <<"x">>}
InlineTags == {"p", "strong", "em", "a", "h2", "del", "sup", "span", "li", "blockquote", "code"}

EscTrees ==
    {Elem(t, <<TextNode(x)>>) : t \in InlineTags, x \in StarTexts}
    \cup {Elem(t, <<TextNode(x), Elem(u, <<TextNode(y)>>), Elem("br", <<>>)>>) :
            t \in {"p", "li", "blockquote"}, u \in {"strong", "em", "code"},
            x \in {<<"a", "*">>, <<"\\">>}, y \in {<<"_", "b">>, <<"\\">>}}
    \cup {ElemA("a", [href |-> <<"u">>], <<TextNode(<<"_", "b">>)>>), Elem("hr", <<>>)}

EscBodies == {<<e>> : e \in EscTrees}

Cell(t, kids) == Elem("tr", <<Elem(t, kids)>>)

TableBodies ==
    { <<Elem("table",
             <<Elem("tr", <<Elem("th", <<TextNode(<<"h", "_">>)>>),
                            Elem("th", <<TextNode(<<"k">>)>>)>>),
               Elem("tr", <<Elem("td", <<TextNode(<<" ", "a", "*">>)>>),
                            Elem("td", <<Elem("ul", <<Elem("li", <<TextNode(<<"x">>)>>)>>)>>)>>)>>)>>,
      <<Elem("table", <<TextNode(<<"c", "_">>), Cell("td", <<TextNode(<<"a">>)>>)>>)>>,
      <<Elem("table", <<>>)>>,
      <<Elem("table", <<Cell("td", <<Elem("ol", <<Elem("li", <<Elem("table",
             <<Cell("td", <<Elem("li", <<TextNode(<<"y", "_">>)>>)>>)>>)>>)>>)>>)>>)>>,
      <<Elem("table", <<Cell("td", <<Elem("table", <<Cell("td", <<TextNode(<<"n", "*">>)>>)>>)>>)>>)>>,
      <<Elem("table", <<Cell("td", <<Elem("td", <<TextNode(<<"_", "b">>)>>)>>)>>)>>,
      <<Elem("ol", <<Elem("li", <<Elem("table",
             <<Cell("td", <<Elem("li", <<TextNode(<<"x">>)>>),
                            Elem("ol", <<Elem("li", <<TextNode(<<"y">>)>>)>>)>>),
               Elem("tr", <<>>)>>)>>),
                     Elem("li", <<TextNode(<<"z">>)>>)>>)>> }

\* A message element: the role-marked div, its body either directly below
\* it or inside a div of class "markdown".
MessageElement(role, markdown, body) ==
    ElemA("div", (RoleAttr :> role),
          IF markdown THEN <<ElemA("div", [class |-> <<"markdown", "prose">>], body)>>
          ELSE body)

SmallBodies ==
    { <<TextNode(<<" ">>)>>,
      <<TextNode(<<"h", "i">>)>>,
      <<Elem("ol", <<Elem("li", <<TextNode(<<"a">>)>>)>>)>>,
      <<Elem("li", <<TextNode(<<"b">>)>>)>> }

SmallElements ==
    {MessageElement(r, m, b) : r \in {"Assistant", "tool"}, m \in BOOLEAN, b \in SmallBodies}

Page(forest) ==
    [type |-> "str", s |-> <<"<article", " ", "data-message-author-role", ">">>,
     soup |-> <<Elem("article", forest)>>]

ListPages == {Page(<<MessageElement("assistant", TRUE, b)>>) : b \in ListBodies}

OtherPages ==
    {Page(<<MessageElement(r, m, b)>>) :
        r \in {"user", "assistant"}, m \in BOOLEAN, b \in EscBodies \cup PreBodies \cup TableBodies}
    \cup {Page(f) : f \in UNION {[1..k -> SmallElements] : k \in 0..MaxElements}}
    \cup {Page(<<ElemA("div", (RoleAttr :> "user"),
                       <<TextNode(<<"q">>),
                         ElemA("div", (RoleAttr :> ""), <<TextNode(<<"r">>)>>)>>)>>)}

\* The calls made on a ChatGPTFormatHandler: <<page, method>>.
HandlerCalls ==
    (ListPages \X {"workbench"}) \cup (OtherPages \X {"markdown", "workbench"})

\* ------------------------------------------------------------------------
\*  The state machine
\* ------------------------------------------------------------------------

VARIABLES
    caller,          \* the entry point called: "convert_format" or a ChatGPTFormatHandler method
    json_data,       \* the raw input (self.json_data once a handler holds it)
    file_timestamp,  \* "None" or the formatted file time
    output_format,   \* the requested output format
    pc,              \* the function now running
    handler,         \* the class of the handler detect_format returned
    result,          \* what the call returned or raised
    input_messages,  \* _convert_to_messages: the input items still to visit
    messages,        \* the messages list being built
    todo,            \* _extract_messages: the role-marked elements still to visit
    contents,        \* _extract_messages: each value `content` has taken, in order
    frames,          \* _HTML2MD: the open _node_to_md calls, the convert call first
    _list_stack,     \* _HTML2MD._list_stack
    fmt,             \* _format_messages: the messages still to format
    markdown         \* _format_messages: the local `markdown`

vars == <<caller, json_data, file_timestamp, output_format, pc, handler, result,
          input_messages, messages, todo, contents, frames, _list_stack, fmt, markdown>>

inputs == <<caller, json_data, file_timestamp, output_format>>

Init ==
    /\ \/ /\ caller = "convert_format"
          /\ json_data \in RawInputs
          /\ output_format \in OutputFormats
          /\ file_timestamp \in Timestamps
          /\ pc = "detect_format"
          /\ handler = "None"
          /\ todo = <<>>
       \/ /\ caller = "ChatGPTFormatHandler"
          /\ \E c \in HandlerCalls : json_data = c[1] /\ output_format = c[2]
          /\ file_timestamp = "None"
          /\ pc = "_extract_messages"
          /\ handler = "ChatGPTFormatHandler"
          \* soup.find_all(attrs={"data-message-author-role": True})
          /\ todo = FindAllAttr(json_data.soup, RoleAttr)
    /\ result = NoResult
    /\ input_messages = <<>>
    /\ messages = <<>>
    /\ contents = <<>>
    /\ frames = <<>>
    /\ _list_stack = <<>>
    /\ fmt = <<>>
    /\ markdown = <<>>

\* detect_format, as convert_format calls it
DetectFormat ==
    /\ pc = "detect_format"
    /\ LET r == detect_format(json_data) IN
       IF r.status = "return"
       THEN /\ handler' = r.value
            /\ pc' = "convert_format"
            /\ UNCHANGED result
       ELSE /\ result' = r
            /\ pc' = "done"
            /\ UNCHANGED handler
    /\ UNCHANGED <<inputs, input_messages, messages, todo, contents, frames,
                   _list_stack, fmt, markdown>>

\* convert_format after detect_format: the call of handler.to_markdown or
\* handler.to_workbench, up to the first loop of that method.
ConvertFormat ==
    /\ pc = "convert_format"
    /\ CASE output_format \notin {"markdown", "workbench"} ->
              /\ result' = Raise("ValueError", "Unsupported output format")
              /\ pc' = "done"
              /\ UNCHANGED <<input_messages, fmt>>
         [] output_format \in {"markdown", "workbench"}
              /\ handler = "PlaygroundFormatHandler" ->
              \* self.json_data.get(...)
              IF IsDict(json_data)
              THEN /\ input_messages' = DictGet(json_data.d, "input", <<>>)
                   /\ pc' = "_convert_to_messages"
                   /\ UNCHANGED <<result, fmt>>
              ELSE /\ result' = Raise("AttributeError", "object has no attribute 'get'")
                   /\ pc' = "done"
                   /\ UNCHANGED <<input_messages, fmt>>
         [] output_format = "markdown" /\ handler = "WorkbenchFormatHandler" ->
              \* self.json_data["messages"]
              IF IsDict(json_data)
              THEN /\ fmt' = json_data.d["messages"]
                   /\ pc' = "_format_messages"
                   /\ UNCHANGED <<result, input_messages>>
              ELSE /\ result' = Raise("TypeError", "indices must be integers")
                   /\ pc' = "done"
                   /\ UNCHANGED <<input_messages, fmt>>
         [] output_format = "workbench" /\ handler = "WorkbenchFormatHandler" ->
              /\ result' = Return(WorkbenchToWorkbench(json_data))
              /\ pc' = "done"
              /\ UNCHANGED <<input_messages, fmt>>
    /\ UNCHANGED <<inputs, handler, messages, todo, contents, frames, _list_stack, markdown>>

\* What to_markdown / to_workbench do with the extracted messages.
UseMessages(msgs) ==
    IF output_format = "workbench"
    THEN /\ result' = Return(Dict([messages |-> msgs]))
         /\ pc' = "done"
         /\ UNCHANGED fmt
    ELSE /\ fmt' = msgs
         /\ pc' = "_format_messages"
         /\ UNCHANGED result

\* PlaygroundFormatHandler._convert_to_messages: one turn of its loop
ConvertToMessagesStep ==
    /\ pc = "_convert_to_messages"
    /\ input_messages # <<>>
    /\ messages' = PlaygroundConvertOne(messages, Head(input_messages))
    /\ input_messages' = Tail(input_messages)
    /\ UNCHANGED <<inputs, pc, handler, result, todo, contents, frames, _list_stack,
                   fmt, markdown>>

\* PlaygroundFormatHandler._convert_to_messages: its return
ConvertToMessagesReturn ==
    /\ pc = "_convert_to_messages"
    /\ input_messages = <<>>
    /\ UseMessages(messages)
    /\ UNCHANGED <<inputs, handler, input_messages, messages, todo, contents, frames,
                   _list_stack, markdown>>

\* ChatGPTFormatHandler._extract_messages: one turn of its loop, up to the
\* call of h2md.convert (or, on the get_text path, to the end of the turn).
ExtractMessagesStep ==
    /\ pc = "_extract_messages"
    /\ todo # <<>>
    /\ LET n == Head(todo)
           role == NormalizeRole(n.attrs[RoleAttr])
       IN IF TakesConvert(n)
          THEN /\ frames' = <<Frame(ConvertRoot(n), ConvertRoot(n).kids)>>
               /\ pc' = "convert"
               /\ UNCHANGED <<todo, contents, messages>>
          ELSE LET content == GetTextStripped(n) IN
               /\ contents' = Append(contents, content)
               /\ messages' = AppendIfContent(messages, role, content)
               /\ todo' = Tail(todo)
               /\ UNCHANGED <<frames, pc>>
    /\ UNCHANGED <<inputs, handler, result, input_messages, _list_stack, fmt, markdown>>

\* ChatGPTFormatHandler._extract_messages: its return
ExtractMessagesReturn ==
    /\ pc = "_extract_messages"
    /\ todo = <<>>
    /\ UseMessages(messages)
    /\ UNCHANGED <<inputs, handler, input_messages, messages, todo, contents, frames,
                   _list_stack, markdown>>

Top == frames[Len(frames)]
HasNext == Top.i <= Len(Top.kids)
NextChild == Top.kids[Top.i]

\* _node_to_md on a text, br, hr or pre: its result joins the caller's buffer.
NodeLeaf ==
    /\ pc = "convert"
    /\ HasNext
    /\ ~Descends(NextChild)
    /\ frames' = [frames EXCEPT ![Len(frames)] =
                     [@ EXCEPT !.acc = @ \o _node_to_md_leaf(NextChild), !.i = @ + 1]]
    /\ UNCHANGED <<inputs, pc, handler, result, input_messages, messages, todo, contents,
                   _list_stack, fmt, markdown>>

\* _node_to_md on any other tag, up to its call of _children_md: ul and ol
\* push their entry, li takes its bullet, table goes to the cells
\* _table_to_md finds below it.  Also _table_to_md reaching a cell.
NodeEnter ==
    /\ pc = "convert"
    /\ HasNext
    /\ Descends(NextChild)
    /\ LET node == NextChild
           marker == _current_list_marker(_list_stack)
       IN CASE node.tag \in {"ul", "ol"} ->
                 /\ _list_stack' = ListPush(_list_stack, node.tag)
                 /\ frames' = Append(frames, Frame(node, node.kids))
            [] node.tag = "li" ->
                 /\ _list_stack' = marker.stack
                 /\ frames' = Append(frames, [Frame(node, node.kids)
                                                 EXCEPT !.bullet = marker.bullet])
            [] node.tag = "table" ->
                 /\ frames' = Append(frames, Frame(node, TableCells(node)))
                 /\ UNCHANGED _list_stack
            [] OTHER ->
                 /\ frames' = Append(frames, Frame(node, node.kids))
                 /\ UNCHANGED _list_stack
    /\ UNCHANGED <<inputs, pc, handler, result, input_messages, messages, todo, contents,
                   fmt, markdown>>

\* _node_to_md after _children_md returned: ul and ol pop their entry, and
\* the result joins the caller's buffer.  For a cell of a table, the
\* return of _children_md(c) to _table_to_md, which keeps it stripped.
NodeExit ==
    /\ pc = "convert"
    /\ Len(frames) > 1
    /\ ~HasNext
    /\ LET done == Top
           rest == SubSeq(frames, 1, Len(frames) - 1)
           InTable == Len(rest) > 1 /\ rest[Len(rest)].node.tag = "table"
       IN /\ frames' = [rest EXCEPT ![Len(rest)] =
                 IF InTable
                 THEN [@ EXCEPT !.cells = Append(@, Strip(done.acc)), !.i = @ + 1]
                 ELSE [@ EXCEPT !.acc = @ \o _node_to_md_close(done.node, done.acc,
                                                               done.bullet, done.cells),
                                !.i = @ + 1]]
          /\ _list_stack' = IF done.node.tag \in {"ul", "ol"} THEN ListPop(_list_stack)
                            ELSE _list_stack
    /\ UNCHANGED <<inputs, pc, handler, result, input_messages, messages, todo, contents,
                   fmt, markdown>>

\* The return of h2md.convert and the rest of the turn of _extract_messages.
ConvertReturn ==
    /\ pc = "convert"
    /\ Len(frames) = 1
    /\ ~HasNext
    /\ LET n == Head(todo)
           role == NormalizeRole(n.attrs[RoleAttr])
           content == Strip(ConvertFinish(Top.acc))
       IN /\ contents' = Append(contents, content)
          /\ messages' = AppendIfContent(messages, role, content)
    /\ todo' = Tail(todo)
    /\ frames' = <<>>
    /\ pc' = "_extract_messages"
    /\ UNCHANGED <<inputs, handler, result, input_messages, _list_stack, fmt, markdown>>

\* _format_messages: one turn of its loop
FormatMessagesStep ==
    /\ pc = "_format_messages"
    /\ fmt # <<>>
    /\ markdown' = markdown \o _format_message(handler, Head(fmt).role, Head(fmt).content)
    /\ fmt' = Tail(fmt)
    /\ UNCHANGED <<inputs, pc, handler, result, input_messages, messages, todo, contents,
                   frames, _list_stack>>

\* _format_messages returns and to_markdown returns the document.
FormatMessagesReturn ==
    /\ pc = "_format_messages"
    /\ fmt = <<>>
    /\ result' = Return(
           _create_markdown_structure(ModelName(handler, json_data),
                                      _format_timestamp(file_timestamp))
           \o _format_messages_end(handler, markdown))
    /\ pc' = "done"
    /\ UNCHANGED <<inputs, handler, input_messages, messages, todo, contents, frames,
                   _list_stack, fmt, markdown>>

Next ==
    \/ DetectFormat
    \/ ConvertFormat
    \/ ConvertToMessagesStep
    \/ ConvertToMessagesReturn
    \/ ExtractMessagesStep
    \/ ExtractMessagesReturn
    \/ NodeLeaf
    \/ NodeEnter
    \/ NodeExit
    \/ ConvertReturn
    \/ FormatMessagesStep
    \/ FormatMessagesReturn

Spec == Init /\ [][Next]_vars

\* ------------------------------------------------------------------------
\*  Properties
\* ------------------------------------------------------------------------

Returned == pc = "done" /\ result.status = "return"

\* The nodes _node_to_md is called on below a root, in the order of the
\* calls: nothing inside a pre, and of a table what its cells hold.
RECURSIVE Rendered(_)
Rendered(kids) ==
    IF kids = <<>> THEN <<>>
    ELSE LET n == Head(kids)
             cells == TableCells(n)
             below == IF ~Descends(n) THEN <<>>
                      ELSE IF n.tag = "table"
                           THEN Concat([c \in DOMAIN cells |-> Rendered(cells[c].kids)])
                           ELSE Rendered(n.kids)
         IN <<n>> \o below \o Rendered(Tail(kids))

\* The role-marked elements of the page, in document order.
Elements == FindAllAttr(json_data.soup, RoleAttr)

InHandlerCall == caller = "ChatGPTFormatHandler"
InConvertFormat == caller = "convert_format"

\* The two-valued role an author-role attribute value stands for.
RoleOf(value) ==
    IF value \in {"assistant", "Assistant", "ASSISTANT"} THEN "assistant" ELSE "user"

\* The message sequence the handler in use works from.
CanonicalMessages ==
    IF handler = "WorkbenchFormatHandler"
    THEN (IF IsDict(json_data) /\ "messages" \in DOMAIN json_data.d
          THEN json_data.d["messages"] ELSE <<>>)
    ELSE messages

\* --- C1 ------------------------------------------------------------------
\* C1: a string that satisfies the HTML predicate ("<article" and
\* "data-message-author-role" occur in it) and also a membership test for
\* "input" or "messages" is routed by detect_format to ChatGPTFormatHandler.
C1_HtmlStringRoutedToHtmlHandler ==
    ( /\ InConvertFormat
      /\ pc # "detect_format"
      /\ ChatGPTCanHandle(json_data)
      /\ (PlaygroundCanHandle(json_data) = "True" \/ WorkbenchCanHandle(json_data) = "True") )
    => handler = "ChatGPTFormatHandler"

\* --- C2 ------------------------------------------------------------------
\* The fenced block of a pre as the claim has it: the fence with its
\* language label, the code text, the closing fence.
FencedBlock(pre) ==
    Fence \o PreLang(pre) \o <<"\n">> \o PreCode(pre) \o <<"\n">> \o Fence

Pres(n) == LET IsPre(d) == d.tag = "pre" IN SelectSeq(Rendered(n.kids), IsPre)

\* C2: for every pre rendered by convert, at the top level, inside li or
\* inside blockquote, the converted string holds the fence, the code text
\* (line ends normalised, blank lines at its ends stripped, every interior
\* character unchanged) and the closing fence.
C2_FencedPayloadUnchanged ==
    InHandlerCall =>
        \A k \in DOMAIN contents :
            TakesConvert(Elements[k]) =>
                LET pres == Pres(ConvertRoot(Elements[k])) IN
                \A j \in DOMAIN pres : Contains(contents[k], FencedBlock(pres[j]))

\* --- C3 ------------------------------------------------------------------
\* How many of the first i children are li elements.
LiAmong(kids, i) == Cardinality({j \in 1..i : kids[j].tag = "li"})

\* C3: the marker of every direct li child of an ol being rendered is its
\* position among the direct li children of that ol: 1., 2., ..., k.
C3_DirectItemsNumberedFromOne ==
    pc = "convert" =>
        \A k \in 3..Len(frames) :
            (frames[k].node.tag = "li" /\ frames[k - 1].node.tag = "ol") =>
                frames[k].bullet =
                    DecimalStr(LiAmong(frames[k - 1].node.kids, frames[k - 1].i)) \o <<".">>

\* --- C4 ------------------------------------------------------------------
\* The messages the first n elements stand for: each one's role with the
\* content extracted for it, the ones with empty content left out.
RECURSIVE KeptMessages(_)
KeptMessages(n) ==
    IF n = 0 THEN <<>>
    ELSE LET before == KeptMessages(n - 1) IN
         IF contents[n] = <<>> THEN before
         ELSE Append(before, [role |-> RoleOf(Elements[n].attrs[RoleAttr]),
                              content |-> contents[n]])

\* C4: _extract_messages returns at most N messages for N role-marked
\* elements: exactly those elements whose extracted, trimmed content is not
\* empty, in document order.
C4_MessagesAreTheNonEmptyElements ==
    InHandlerCall =>
        /\ Len(contents) + Len(todo) = Len(Elements)
        /\ messages = KeptMessages(Len(contents))
        /\ Len(messages) <= Len(Elements)
        /\ \A k \in DOMAIN contents : contents[k] = Strip(contents[k])
        /\ pc \in {"_format_messages", "done"} => Len(contents) = Len(Elements)
        /\ (Returned /\ output_format = "workbench") => result.value.d["messages"] = messages

C4_Witness ==
    /\ InHandlerCall
    /\ Returned
    /\ Len(Elements) = 2
    /\ contents[1] = <<>>
    /\ contents[2] # <<>>
    /\ Len(messages) = 1

\* --- C5 ------------------------------------------------------------------
\* How often ch occurs in s.
Count(s, ch) == Cardinality({i \in DOMAIN s : s[i] = ch})

\* How often ch occurs in s outside a backslash escape, reading s from the
\* left: a backslash and the character after it form one escape.
RECURSIVE BareCount(_, _)
BareCount(s, ch) ==
    IF s = <<>> THEN 0
    ELSE IF Head(s) = "\\" /\ Len(s) >= 2 THEN BareCount(SubSeq(s, 3, Len(s)), ch)
    ELSE (IF Head(s) = ch THEN 1 ELSE 0) + BareCount(Tail(s), ch)

RECURSIVE Sum(_)
Sum(nums) == IF nums = <<>> THEN 0 ELSE Head(nums) + Sum(Tail(nums))

SumOver(seq, F(_)) == Sum([i \in DOMAIN seq |-> F(seq[i])])

\* The "*" that markup puts into the rendering of kids: four for strong,
\* two for em, one for the bullet of an li whose innermost list is no ol.
RECURSIVE MarkupStars(_, _)
MarkupStars(kids, list) ==
    IF kids = <<>> THEN 0
    ELSE LET n == Head(kids)
             own == CASE n.tag = "strong" -> 4
                      [] n.tag = "em" -> 2
                      [] n.tag = "li" /\ list # "ol" -> 1
                      [] OTHER -> 0
             cells == TableCells(n)
             below == IF ~Descends(n) THEN 0
                      ELSE IF n.tag = "table"
                           THEN Sum([c \in DOMAIN cells |-> MarkupStars(cells[c].kids, list)])
                           ELSE MarkupStars(n.kids,
                                            IF n.tag \in {"ul", "ol"} THEN n.tag ELSE list)
         IN own + below + MarkupStars(Tail(kids), list)

\* The occurrences of ch in the text leaves that are rendered below root.
LeafCount(root, ch) ==
    LET F(n) == IF IsText(n) THEN Count(n.text, ch) ELSE 0 IN
    SumOver(Rendered(root.kids), F)

\* The occurrences of ch, all and bare, in the fenced blocks below root.
FencedCount(root, ch) ==
    LET F(n) == IF n.tag = "pre" THEN Count(_pre_to_md(n), ch) ELSE 0 IN
    SumOver(Rendered(root.kids), F)
FencedBare(root, ch) ==
    LET F(n) == IF n.tag = "pre" THEN BareCount(_pre_to_md(n), ch) ELSE 0 IN
    SumOver(Rendered(root.kids), F)

MarkupOf(root, ch) == IF ch = "*" THEN MarkupStars(root.kids, "none") ELSE 0

\* Every ch of a rendered text leaf is in the content, and none of them
\* bare: the bare ones are those of the markup and of the fenced blocks.
LeavesEscaped(root, content, ch) ==
    /\ Count(content, ch) = LeafCount(root, ch) + MarkupOf(root, ch) + FencedCount(root, ch)
    /\ BareCount(content, ch) = MarkupOf(root, ch) + FencedBare(root, ch)

\* The claim as stated, on every path: the text leaves are all the text
\* below the element, and on the get_text path there is no markup.
NoBareLeafChars(n, content, ch) ==
    LET texts == SelectSeq(Descendants(n), IsText)
        F(t) == Count(t.text, ch)
    IN /\ Count(content, ch) >= SumOver(texts, F)
       /\ BareCount(content, ch) = (IF TakesConvert(n) THEN MarkupOf(ConvertRoot(n), ch) ELSE 0)

\* C5 (as stated): every "*" and "_" of a text leaf of a role-marked
\* element is in the message content with a backslash before it, on the
\* markdown sub-element path, the whole-element path and the get_text path.
C5_LeafCharsEscapedOnEveryPath ==
    InHandlerCall =>
        \A k \in DOMAIN contents : \A ch \in {"*", "_"} :
            NoBareLeafChars(Elements[k], contents[k], ch)

\* C5 (amended): every "*" and "_" of a text leaf that _HTML2MD renders (the
\* element takes the markdown sub-element or the whole-element path, and
\* the leaf is not inside a pre) is in the message content with a backslash
\* before it.
C5_RenderedLeafCharsEscaped ==
    InHandlerCall =>
        \A k \in DOMAIN contents : \A ch \in {"*", "_"} :
            TakesConvert(Elements[k]) =>
                LeavesEscaped(ConvertRoot(Elements[k]), contents[k], ch)

C5_Witness ==
    /\ InHandlerCall
    /\ Returned
    /\ Len(contents) = 1
    /\ TakesConvert(Elements[1])
    /\ LeafCount(ConvertRoot(Elements[1]), "*") = 1
    /\ Contains(contents[1], <<"\\", "*">>)
    /\ Contains(contents[1], <<"\\", "_">>)

\* --- C6 ------------------------------------------------------------------
FlatListShape(v) == IsDict(v) /\ "messages" \in DOMAIN v.d /\ "input" \notin DOMAIN v.d

\* C6: convert_format(x, "workbench") on an object with a "messages" key
\* and no "input" key returns a value whose "messages" equals the input's:
\* same length, order, role and content, empty contents included.
C6_WorkbenchRoundTrip ==
    (InConvertFormat /\ pc = "done" /\ output_format = "workbench" /\ FlatListShape(json_data))
    => /\ result.status = "return"
       /\ IsDict(result.value)
       /\ "messages" \in DOMAIN result.value.d
       /\ result.value.d["messages"] = json_data.d["messages"]

C6_Witness ==
    /\ InConvertFormat
    /\ pc = "done"
    /\ output_format = "workbench"
    /\ FlatListShape(json_data)
    /\ Len(json_data.d["messages"]) = 2
    /\ json_data.d["messages"][1].content = <<>>
    /\ result.status = "return"

\* --- C7 ------------------------------------------------------------------
\* The block the delimiter scheme gives a message that has content.
DelimitedBlock(m) ==
    IF m.content = <<>> THEN <<>>
    ELSE <<"::: ", m.role, "\n">> \o m.content \o <<"\n", ":::", "\n", "\n">>

\* C7: the document to_markdown returns is the header, then for each
\* message with content the block "::: <role>\n<content>\n:::\n\n", then one
\* newline, whatever the input format.
C7_DelimiterSchemeOnly ==
    (Returned /\ output_format = "markdown") =>
        result.value =
            _create_markdown_structure(ModelName(handler, json_data),
                                       _format_timestamp(file_timestamp))
            \o Concat([i \in DOMAIN CanonicalMessages |-> DelimitedBlock(CanonicalMessages[i])])
            \o <<"\n">>

\* --- C8 ------------------------------------------------------------------
\* The extractor predicates as the interface states them.
MatchesAnExtractor(v) ==
    \/ IsDict(v) /\ ("input" \in DOMAIN v.d \/ "messages" \in DOMAIN v.d)
    \/ ChatGPTCanHandle(v)

\* C8: convert_format fails with "Unsupported chat format" for every input
\* that matches no extractor predicate, and with "Unsupported output
\* format" for every input that matches one when the output format is
\* neither "markdown" nor "workbench"; no other failure escapes.
C8_OnlyTypedFailures ==
    (InConvertFormat /\ pc = "done") =>
        /\ ~MatchesAnExtractor(json_data)
              => result = Raise("ValueError", "Unsupported chat format")
        /\ (MatchesAnExtractor(json_data) /\ output_format \notin {"markdown", "workbench"})
              => result = Raise("ValueError", "Unsupported output format")
        /\ result.status = "raise" => result.exc = "ValueError"

VisitedInput ==
    LET all == DictGet(json_data.d, "input", <<>>) IN
    SubSeq(all, 1, Len(all) - Len(input_messages))

\* Whether an input item yields a message: its role is one of the two and
\* its first content entry of the role's type has text.
YieldsMessage(item) ==
    /\ item.role \in {"user", "assistant"}
    /\ FirstText(item.content, IF item.role = "user" THEN "input_text" ELSE "output_text") # <<>>

Roles(msgs) == [i \in DOMAIN msgs |-> msgs[i].role]

OpenLists ==
    LET open == [k \in 1..(Len(frames) - 1) |-> frames[k + 1].node.tag]
        IsList(t) == t \in {"ul", "ol"}
    IN SelectSeq(open, IsList)

\* C10: while _HTML2MD renders, _list_stack holds one entry per ul or ol
\* whose _node_to_md call is open, in their order; outside a convert call,
\* and so at the entry to and the return from each one, it is empty, also
\* when the instance has converted earlier messages; and an element that
\* occurs twice in a page gets the same content both times.
C10_ListStackIsTheOpenLists ==
    /\ pc = "convert" =>
          /\ Len(_list_stack) = Len(OpenLists)
          /\ \A k \in DOMAIN OpenLists : _list_stack[k][1] = OpenLists[k]
    /\ pc # "convert" => _list_stack = <<>>
    /\ InHandlerCall =>
          \A j, k \in DOMAIN contents : Elements[j] = Elements[k] => contents[j] = contents[k]

C10_Witness ==
    /\ pc = "convert"
    /\ Len(contents) = 1
    /\ contents[1] = <<"1", ".", " ", "a">>
    /\ Len(frames) = 3
    /\ _list_stack = << <<"ol", 1>> >>

=============================================================================
